---- MODULE Spec2Model ----
(***************************************************************************)
(* A model of .github/scripts/md2rss.py: the converter that reads          *)
(* newsfeed.md, extracts (date, content) pairs from its dated sections,    *)
(* builds a feed with feedgen and writes newsfeed.xml.                     *)
(*                                                                         *)
(* Text is modelled as it is in the program: a sequence of characters      *)
(* (one-character strings).  The file's content is drawn from all          *)
(* documents of at most MaxLines lines over a pool of heading, bullet and  *)
(* other lines, plus a few longer fixed documents.  The only line break    *)
(* in these documents is the line feed, which is what the file holds after *)
(* open() has translated its line endings; the other characters at which   *)
(* str.splitlines() also breaks (form feed, U+2028, ...) do not occur.     *)
(* The script is run twice on the same file; the wall clock advances       *)
(* between the runs.                                                       *)
(*                                                                         *)
(* Two behaviours come from the feedgen library the script calls with its  *)
(* defaults: FeedGenerator() stamps the channel's lastBuildDate with the   *)
(* time of its construction, and add_entry() places the new entry first    *)
(* (order='prepend').                                                      *)
(***************************************************************************)
EXTENDS Integers, Sequences, FiniteSets, TLC

VARIABLES md, pc, text, items, fg, idx, outfile, clock, run, prevOut

vars == <<md, pc, text, items, fg, idx, outfile, clock, run, prevOut>>

(***************************************************************************)
(* Bounds of the model.                                                    *)
(***************************************************************************)
MaxLines == 3
MaxClock == 2

(***************************************************************************)
(* Characters and strings.                                                 *)
(***************************************************************************)
NL == "\n"

Digits == {"0", "1", "2", "3", "4", "5", "6", "7", "8", "9"}

DigitVal(c) ==
    CASE c = "0" -> 0 [] c = "1" -> 1 [] c = "2" -> 2 [] c = "3" -> 3
      [] c = "4" -> 4 [] c = "5" -> 5 [] c = "6" -> 6 [] c = "7" -> 7
      [] c = "8" -> 8 [] c = "9" -> 9

\* str.strip() with no argument removes the characters str.isspace() accepts.
IsSpace(c) == c \in {" ", "\n", "\t", "\r"}

Min(S) == CHOOSE x \in S : \A y \in S : x <= y

Max(S) == CHOOSE x \in S : \A y \in S : x >= y

\* str.lstrip(): s from its first character that is no white space.
LStrip(s) ==
    IF \A i \in 1..Len(s) : IsSpace(s[i]) THEN <<>>
    ELSE SubSeq(s,
                CHOOSE i \in 1..Len(s) :
                    ~IsSpace(s[i]) /\ \A j \in 1..(i - 1) : IsSpace(s[j]),
                Len(s))

\* str.rstrip(): s up to its last character that is no white space.
RStrip(s) ==
    IF \A i \in 1..Len(s) : IsSpace(s[i]) THEN <<>>
    ELSE SubSeq(s, 1,
                CHOOSE i \in 1..Len(s) :
                    ~IsSpace(s[i]) /\ \A j \in (i + 1)..Len(s) : IsSpace(s[j]))

\* str.strip()
Strip(s) == RStrip(LStrip(s))

\* str.startswith(prefix)
StartsWith(s, prefix) ==
    /\ Len(s) >= Len(prefix)
    /\ SubSeq(s, 1, Len(prefix)) = prefix

\* str.splitlines(): the lines of s without their line breaks; a final line
\* break opens no further line, and the empty string has no lines.
RECURSIVE SplitLines(_)
SplitLines(s) ==
    LET breaks == { i \in 1..Len(s) : s[i] = NL }
    IN  IF s = <<>> THEN <<>>
        ELSE IF breaks = {} THEN <<s>>
        ELSE <<SubSeq(s, 1, Min(breaks) - 1)>>
               \o SplitLines(SubSeq(s, Min(breaks) + 1, Len(s)))

(***************************************************************************)
(* Section and item extraction.                                            *)
(***************************************************************************)
HeadingMarker == <<"#", "#", " ">>

\* r'^## ' with re.MULTILINE matches at p: p starts the text or follows a
\* line break, and the three characters at p are the marker.
HeadingAt(s, p) ==
    /\ p = 1 \/ s[p - 1] = NL
    /\ p + 2 <= Len(s)
    /\ SubSeq(s, p, p + 2) = HeadingMarker

\* re.split: the pieces of s between the matches, the current piece having
\* started at position start.
RECURSIVE ReSplitFrom(_, _)
ReSplitFrom(s, start) ==
    LET matches == { p \in start..Len(s) : HeadingAt(s, p) }
    IN  IF matches = {} THEN <<SubSeq(s, start, Len(s))>>
        ELSE <<SubSeq(s, start, Min(matches) - 1)>>
               \o ReSplitFrom(s, Min(matches) + 3)

\* sections = re.split(r'^## ', md, flags=re.MULTILINE)[1:]
Sections(s) == Tail(ReSplitFrom(s, 1))

BulletPrefix == <<"-", " ">>

\* Variant of IsItemLine: the prefix is looked for on the line as it stands,
\* without line = line.strip().
IsItemLineUnstripped(line) == StartsWith(line, BulletPrefix)

\* if line.startswith('- ') on the stripped line
IsItemLine(line) == StartsWith(Strip(line), BulletPrefix)

\* content = line[2:] on the stripped line
ItemContent(line) == SubSeq(Strip(line), 3, Len(Strip(line)))

\* The inner loop over lines[1:] with the section's date.
RECURSIVE SectionItems(_, _)
SectionItems(date, lines) ==
    IF lines = <<>> THEN <<>>
    ELSE (IF IsItemLine(Head(lines))
          THEN <<[date |-> date, content |-> ItemContent(Head(lines))]>>
          ELSE <<>>) \o SectionItems(date, Tail(lines))

\* lines = section.strip().splitlines()
SectionLines(section) == SplitLines(Strip(section))

\* date = lines[0].strip()
SectionDate(lines) == Strip(lines[1])

\* Variant of ExtractItems: 'break' in place of 'continue' at a section with
\* no lines.
RECURSIVE ExtractItemsStopAtEmpty(_)
ExtractItemsStopAtEmpty(sections) ==
    IF sections = <<>> THEN <<>>
    ELSE LET lines == SectionLines(Head(sections))
         IN  IF lines = <<>> THEN <<>>
             ELSE SectionItems(SectionDate(lines), Tail(lines))
                    \o ExtractItemsStopAtEmpty(Tail(sections))

\* The outer loop over the sections, appending to items.
RECURSIVE ExtractItems(_)
ExtractItems(sections) ==
    IF sections = <<>> THEN <<>>
    ELSE LET lines == SectionLines(Head(sections))
         IN  (IF lines = <<>> THEN <<>>
              ELSE SectionItems(SectionDate(lines), Tail(lines)))
             \o ExtractItems(Tail(sections))

(***************************************************************************)
(* Date parsing: datetime.strptime with the two formats, in the fixed      *)
(* zone.  A parse is the set of its results: empty when strptime raises    *)
(* ValueError, one datetime otherwise.                                     *)
(***************************************************************************)
central == "America/Chicago"

AllDigits(f) == \A i \in 1..Len(f) : f[i] \in Digits

\* %Y: \d\d\d\d
MatchYear(f) == Len(f) = 4 /\ AllDigits(f)

\* %m: 1[0-2]|0[1-9]|[1-9]
MatchMonth(f) ==
    \/ Len(f) = 2 /\ f[1] = "1" /\ f[2] \in {"0", "1", "2"}
    \/ Len(f) = 2 /\ f[1] = "0" /\ f[2] \in Digits \ {"0"}
    \/ Len(f) = 1 /\ f[1] \in Digits \ {"0"}

\* %d: 3[0-1]|[1-2]\d|0[1-9]|[1-9]| [1-9]
MatchDay(f) ==
    \/ Len(f) = 2 /\ f[1] = "3" /\ f[2] \in {"0", "1"}
    \/ Len(f) = 2 /\ f[1] \in {"1", "2"} /\ f[2] \in Digits
    \/ Len(f) = 2 /\ f[1] = "0" /\ f[2] \in Digits \ {"0"}
    \/ Len(f) = 1 /\ f[1] \in Digits \ {"0"}
    \/ Len(f) = 2 /\ f[1] = " " /\ f[2] \in Digits \ {"0"}

\* %H: 2[0-3]|[0-1]\d|\d
MatchHour(f) ==
    \/ Len(f) = 2 /\ f[1] = "2" /\ f[2] \in {"0", "1", "2", "3"}
    \/ Len(f) = 2 /\ f[1] \in {"0", "1"} /\ f[2] \in Digits
    \/ Len(f) = 1 /\ f[1] \in Digits

\* %M: [0-5]\d|\d
MatchMinute(f) ==
    \/ Len(f) = 2 /\ f[1] \in {"0", "1", "2", "3", "4", "5"} /\ f[2] \in Digits
    \/ Len(f) = 1 /\ f[1] \in Digits

\* A blank in the format: \s+
MatchBlanks(f) == Len(f) >= 1 /\ \A i \in 1..Len(f) : IsSpace(f[i])

\* int() of a matched field (a day may carry a leading blank).
RECURSIVE FieldValue(_)
FieldValue(f) ==
    IF f = <<>> THEN 0
    ELSE IF f[Len(f)] \in Digits
         THEN 10 * FieldValue(SubSeq(f, 1, Len(f) - 1)) + DigitVal(f[Len(f)])
         ELSE 0

IsLeap(y) == (y % 4 = 0 /\ y % 100 # 0) \/ y % 400 = 0

DaysInMonth(y, m) ==
    IF m = 2 THEN (IF IsLeap(y) THEN 29 ELSE 28)
    ELSE IF m \in {4, 6, 9, 11} THEN 30 ELSE 31

\* The datetime constructor's range checks (year 0 and day 30 of February
\* raise ValueError).
ValidDate(y, m, d) == y >= 1 /\ d >= 1 /\ d <= DaysInMonth(y, m)

\* The prefix '%Y-%m-%d' of both formats: with a month of lm and a day of ld
\* characters, the first 6 + lm + ld characters of s are a date.
DatePrefix(s, lm, ld) ==
    /\ Len(s) >= 6 + lm + ld
    /\ MatchYear(SubSeq(s, 1, 4))
    /\ s[5] = "-"
    /\ MatchMonth(SubSeq(s, 6, 5 + lm))
    /\ s[6 + lm] = "-"
    /\ MatchDay(SubSeq(s, 7 + lm, 6 + lm + ld))

\* Variant of DateTimeOf: the time of day is dropped.
DateTimeOfMidnight(s, lm, ld, hour, minute) ==
    [year |-> FieldValue(SubSeq(s, 1, 4)),
     month |-> FieldValue(SubSeq(s, 6, 5 + lm)),
     day |-> FieldValue(SubSeq(s, 7 + lm, 6 + lm + ld)),
     hour |-> 0, minute |-> 0, tzinfo |-> central]

DateTimeOf(s, lm, ld, hour, minute) ==
    [year |-> FieldValue(SubSeq(s, 1, 4)),
     month |-> FieldValue(SubSeq(s, 6, 5 + lm)),
     day |-> FieldValue(SubSeq(s, 7 + lm, 6 + lm + ld)),
     hour |-> hour, minute |-> minute, tzinfo |-> central]

\* datetime.strptime(date, '%Y-%m-%d').replace(tzinfo=central)
StrptimeDate(s) ==
    { dt \in { DateTimeOf(s, w[1], w[2], 0, 0) :
                 w \in { v \in (1..2) \X (1..2) :
                           /\ Len(s) = 6 + v[1] + v[2]
                           /\ DatePrefix(s, v[1], v[2]) } } :
        ValidDate(dt.year, dt.month, dt.day) }

\* The rest ' %H:%M' of the date-time format, from position p of s to its
\* end, with an hour of lh and a minute of lmin characters; the blanks take
\* what is left.
TimeSuffix(s, p, lh, lmin) ==
    LET h == Len(s) - lmin - lh
    IN  /\ h > p
        /\ MatchBlanks(SubSeq(s, p, h - 1))
        /\ MatchHour(SubSeq(s, h, h + lh - 1))
        /\ s[h + lh] = ":"
        /\ MatchMinute(SubSeq(s, h + lh + 1, Len(s)))

\* datetime.strptime(date, '%Y-%m-%d %H:%M').replace(tzinfo=central)
StrptimeDateTime(s) ==
    { dt \in { DateTimeOf(s, w[1], w[2],
                   FieldValue(SubSeq(s, Len(s) - w[4] - w[3], Len(s) - w[4] - 1)),
                   FieldValue(SubSeq(s, Len(s) - w[4] + 1, Len(s)))) :
                 w \in { v \in (1..2) \X (1..2) \X (1..2) \X (1..2) :
                           /\ DatePrefix(s, v[1], v[2])
                           /\ TimeSuffix(s, 7 + v[1] + v[2], v[3], v[4]) } } :
        ValidDate(dt.year, dt.month, dt.day) }

\* Variant of ParseDate: a date in neither format is replaced by a default
\* instead of raising.
ParseDateOrDefault(date) ==
    IF StrptimeDateTime(date) # {} THEN StrptimeDateTime(date)
    ELSE IF StrptimeDate(date) # {} THEN StrptimeDate(date)
    ELSE {[year |-> 1970, month |-> 1, day |-> 1, hour |-> 0, minute |-> 0,
           tzinfo |-> central]}

\* Variant of ParseDate: without the fallback to the date-only format.
ParseDateTimeOnly(date) == StrptimeDateTime(date)

\* try: the date-time format; except ValueError: the date-only format, whose
\* ValueError is not caught.
ParseDate(date) ==
    IF StrptimeDateTime(date) # {} THEN StrptimeDateTime(date)
    ELSE StrptimeDate(date)

(***************************************************************************)
(* The feed.                                                               *)
(***************************************************************************)
TitleLimit == 60

\* Variant of EntryTitle: the cut is one character short.
EntryTitleShort(content) ==
    SubSeq(content, 1,
           IF Len(content) < TitleLimit - 1 THEN Len(content) ELSE TitleLimit - 1)

\* content[:60]
EntryTitle(content) ==
    SubSeq(content, 1, IF Len(content) < TitleLimit THEN Len(content) ELSE TitleLimit)

\* markdown2.markdown(content) of one line of plain text: a paragraph.
Markdown(content) == <<"<p>">> \o Strip(content) \o <<"</p>", NL>>

\* fe.title(...), fe.description(...), fe.pubDate(...)
MakeEntry(item, pubdate) ==
    [title |-> EntryTitle(item.content),
     description |-> Markdown(item.content),
     pubDate |-> pubdate]

\* fg = FeedGenerator() and the three channel fields; the generator stamps
\* its lastBuildDate with the time of its construction.
FeedGenerator(now) ==
    [title |-> "SQL Saturday News",
     link |-> "https://github.com/KennyNeal/SQL-Saturday-2025",
     description |-> "Latest news and updates for SQL Saturday Baton Rouge 2025",
     lastBuildDate |-> now,
     entries |-> <<>>]

\* fg.add_entry() with its default order, 'prepend': the new entry becomes
\* the first of the feed.
AddEntry(entries, fe) == <<fe>> \o entries

\* Variant of RssFile: every item is stamped with the build time.
RssFileStamped(feed) ==
    [exists |-> TRUE,
     channel |-> [title |-> feed.title, link |-> feed.link,
                  description |-> feed.description,
                  lastBuildDate |-> feed.lastBuildDate],
     items |-> [k \in 1..Len(feed.entries) |->
                  [feed.entries[k] EXCEPT !.pubDate.minute = feed.lastBuildDate]]]

\* fg.rss_file(...): the channel's fields, then one item per entry in the
\* feed's order.
RssFile(feed) ==
    [exists |-> TRUE,
     channel |-> [title |-> feed.title, link |-> feed.link,
                  description |-> feed.description,
                  lastBuildDate |-> feed.lastBuildDate],
     items |-> feed.entries]

(***************************************************************************)
(* The input file.                                                         *)
(***************************************************************************)
DateOnly == <<"2", "0", "2", "5", "-", "0", "5", "-", "0", "1">>
DateTime == <<"2", "0", "2", "5", "-", "0", "5", "-", "0", "1", " ", "0", "9", ":", "0", "0">>

\* A bullet's text one character longer than a title may be.
LongContent == [i \in 1..(TitleLimit + 1) |-> IF i = 1 THEN "y" ELSE "z"]

HeadingLines ==
    { HeadingMarker \o DateOnly,
      HeadingMarker \o DateTime,
      HeadingMarker,
      HeadingMarker \o <<"x">> }

BodyLines ==
    { <<"-", " ", "a">>,
      <<" ", "-", " ", " ", "c", " ">>,
      <<"-">>,
      <<"*", " ", "d">>,
      <<>>,
      BulletPrefix \o LongContent }

LinePool == HeadingLines \cup BodyLines

\* Date strings of one-section documents: the shapes strptime accepts
\* and the ones it rejects.
DateStrings ==
    { <<"2", "0", "2", "5", "-", "0", "5", "-", "0", "3">>,
      <<"2", "0", "2", "5", "-", "0", "5", "-", "0", "3", " ", "1", "4", ":", "3", "0">>,
      <<"2", "0", "2", "5", "-", "5", "-", "3">>,
      <<"2", "0", "2", "5", "-", "5", "-", "3", " ", "9", ":", "5">>,
      <<"2", "0", "2", "5", "-", "0", "5", "-", "0", "3", " ", " ", "1", "4", ":", "3", "0">>,
      <<"2", "0", "2", "4", "-", "0", "2", "-", "2", "9">>,
      <<"2", "0", "2", "5", "-", "0", "2", "-", "2", "9">>,
      <<"2", "0", "2", "5", "-", "0", "2", "-", "3", "0", " ", "0", "9", ":", "0", "0">>,
      <<"2", "0", "2", "5", "-", "1", "3", "-", "0", "1">>,
      <<"2", "0", "2", "5", "-", "0", "5", "-", "3", "2">>,
      <<"0", "0", "0", "0", "-", "0", "1", "-", "0", "1">>,
      <<"2", "0", "2", "5", "-", "0", "5", "-", "0", "3", " ", "2", "4", ":", "0", "0">>,
      <<"2", "0", "2", "5", "-", "0", "5", "-", "0", "3", " ", "1", "4", ":", "6", "0">>,
      <<"2", "0", "2", "5", "-", "0", "5", "-", "0", "3", "T", "1", "4", ":", "3", "0">>,
      <<"2", "0", "2", "5", "-", "0", "5", "-", "0", "3", " ", "1", "4", ":", "3", "0", ":", "0", "0">>,
      <<"2", "5", "-", "0", "5", "-", "0", "3">>,
      <<"2", "0", "2", "5", "/", "0", "5", "/", "0", "3">>,
      <<"n", "o", "t", "-", "a", "-", "d", "a", "t", "e">>,
      <<"2", "0", "2", "5", "-", "1", "2", "-", "3", "1", " ", "2", "3", ":", "5", "9">>,
      <<"2", "0", "2", "5", "-", "0", "5", "-", " ", "3">> }

JoinLines(ls) ==
    IF ls = <<>> THEN <<>>
    ELSE LET RECURSIVE Join(_)
             Join(k) == IF k = 1 THEN ls[1] ELSE Join(k - 1) \o <<NL>> \o ls[k]
         IN  Join(Len(ls))

\* The example of the documentation: a date-only section with one bullet,
\* a blank line, a date-time section with two bullets.
ScenarioDoc ==
    JoinLines(<<HeadingMarker \o DateOnly,
                <<"-", " ", "a">>,
                <<>>,
                HeadingMarker \o DateTime,
                <<"-", " ", "b">>,
                <<"-", " ", "c">>>>)

\* A well-dated section with a bullet, then a section with a bad date and a
\* bullet.
LateBadDateDoc ==
    JoinLines(<<HeadingMarker \o DateOnly,
                <<"-", " ", "a">>,
                HeadingMarker \o <<"x">>,
                <<"-", " ", "b">>>>)

\* A section with a bad date and no bullet between two well-dated sections
\* with bullets.
EmptySectionDoc ==
    JoinLines(<<HeadingMarker \o DateOnly,
                <<"-", " ", "a">>,
                HeadingMarker \o <<"x">>,
                HeadingMarker \o DateTime,
                <<"-", " ", "b">>,
                <<"-", " ", "c">>>>)

\* A section whose bullets stand among lines that are no items: a '*'
\* bullet, a lone '-', an indented heading, a blank line, prose.
SkippedLinesDoc ==
    JoinLines(<<HeadingMarker \o DateTime,
                <<"*", " ", "d">>,
                <<"-", " ", "a">>,
                <<"-">>,
                <<" ", "#", "#", " ", "x">>,
                <<>>,
                <<"p", "-", " ", "q">>,
                <<"\t", "-", " ", "b">>>>)

Documents ==
    { JoinLines(ls) : ls \in UNION { [1..n -> LinePool] : n \in 0..MaxLines } }
      \cup { JoinLines(<<HeadingMarker \o d, <<"-", " ", "a">>>>) : d \in DateStrings }
      \cup { ScenarioDoc, LateBadDateDoc, EmptySectionDoc, SkippedLinesDoc }

(***************************************************************************)
(* The run of the script.                                                  *)
(***************************************************************************)
NoFile == [exists |-> FALSE,
           channel |-> [title |-> "", link |-> "", description |-> "",
                        lastBuildDate |-> 0],
           items |-> <<>>]

NoFeed == FeedGenerator(0)

Init ==
    /\ md \in Documents
    /\ pc = "open"
    /\ text = <<>>
    /\ items = <<>>
    /\ fg = NoFeed
    /\ idx = 1
    /\ outfile = NoFile
    /\ prevOut = NoFile
    /\ clock = 1
    /\ run = 1

\* with open('newsfeed.md', encoding='utf-8') as f: md = f.read()
ReadFile ==
    /\ pc = "open"
    /\ text' = md
    /\ pc' = "parse"
    /\ UNCHANGED <<md, items, fg, idx, outfile, clock, run, prevOut>>

\* The split into sections and the two extraction loops.
ParseSections ==
    /\ pc = "parse"
    /\ items' = ExtractItems(Sections(text))
    /\ pc' = "feed"
    /\ UNCHANGED <<md, text, fg, idx, outfile, clock, run, prevOut>>

\* fg = FeedGenerator() and its title, link and description, at the wall
\* clock's time, which never runs backwards.
NewFeed ==
    /\ pc = "feed"
    /\ \E now \in clock..MaxClock :
         /\ clock' = now
         /\ fg' = FeedGenerator(now)
    /\ idx' = 1
    /\ pc' = "entries"
    /\ UNCHANGED <<md, text, items, outfile, run, prevOut>>

\* One turn of the loop over items whose date parses: the entry is added
\* and given its title, description and publication date.
AddItem ==
    /\ pc = "entries"
    /\ idx <= Len(items)
    /\ ParseDate(items[idx].date) # {}
    /\ \E pubdate \in ParseDate(items[idx].date) :
         fg' = [fg EXCEPT !.entries = AddEntry(@, MakeEntry(items[idx], pubdate))]
    /\ idx' = idx + 1
    /\ UNCHANGED <<md, pc, text, items, outfile, clock, run, prevOut>>

\* One turn of the loop whose date parses in neither format: the entry has
\* been added and given its title and description when the second strptime
\* raises ValueError, which ends the script.
DateError ==
    /\ pc = "entries"
    /\ idx <= Len(items)
    /\ ParseDate(items[idx].date) = {}
    /\ fg' = [fg EXCEPT !.entries =
                AddEntry(@, [title |-> EntryTitle(items[idx].content),
                             description |-> Markdown(items[idx].content),
                             pubDate |-> [year |-> 0, month |-> 0, day |-> 0,
                                          hour |-> 0, minute |-> 0,
                                          tzinfo |-> "unset"]])]
    /\ pc' = "failed"
    /\ UNCHANGED <<md, text, items, idx, outfile, clock, run, prevOut>>

\* fg.rss_file('newsfeed.xml') after the loop.
WriteFile ==
    /\ pc = "entries"
    /\ idx > Len(items)
    /\ outfile' = RssFile(fg)
    /\ pc' = "done"
    /\ UNCHANGED <<md, text, items, fg, idx, clock, run, prevOut>>

\* The script is started a second time on the unchanged input file; what the
\* first run left of newsfeed.xml is remembered for comparison.
Rerun ==
    /\ pc \in {"done", "failed"}
    /\ run = 1
    /\ run' = 2
    /\ prevOut' = outfile
    /\ pc' = "open"
    /\ text' = <<>>
    /\ items' = <<>>
    /\ fg' = NoFeed
    /\ idx' = 1
    /\ UNCHANGED <<md, outfile, clock>>

Next ==
    \/ ReadFile
    \/ ParseSections
    \/ NewFeed
    \/ AddItem
    \/ DateError
    \/ WriteFile
    \/ Rerun

Spec == Init /\ [][Next]_vars

(***************************************************************************)
(* The document as its author sees it: the lines of newsfeed.md, the       *)
(* heading lines among them, and the bullet lines below a heading.         *)
(***************************************************************************)
LineBreaks(s) == { i \in 1..Len(s) : s[i] = NL }

\* The lines of s: the text between one line break and the next.
SourceLinesOf(s) ==
    LET B == LineBreaks(s)
        At(k) == IF k = 0 THEN 0
                 ELSE IF k > Cardinality(B) THEN Len(s) + 1
                 ELSE CHOOSE i \in B : Cardinality({ j \in B : j <= i }) = k
    IN  [k \in 1..(Cardinality(B) + 1) |-> SubSeq(s, At(k - 1) + 1, At(k) - 1)]

IsHeadingLine(l) == Len(l) >= 3 /\ l[1] = "#" /\ l[2] = "#" /\ l[3] = " "

Trimmed(l) == Strip(l)

IsBulletLine(l) ==
    LET t == Trimmed(l)
    IN  Len(t) >= 2 /\ t[1] = "-" /\ t[2] = " "

\* The heading line that opens the section line i lies in (0: none).
HeadingOf(L, i) ==
    IF \E j \in 1..i : IsHeadingLine(L[j])
    THEN Max({ j \in 1..i : IsHeadingLine(L[j]) })
    ELSE 0

\* The text after the marker on heading line j, trimmed.
HeadingDate(L, j) == Trimmed(SubSeq(L[j], 4, Len(L[j])))

\* The bullet lines that lie inside a section.
SectionBullets(L) ==
    { i \in 1..Len(L) :
        /\ \E j \in 1..i : IsHeadingLine(L[j])
        /\ ~IsHeadingLine(L[i])
        /\ IsBulletLine(L[i]) }

\* The (date, content) pairs the document's bullet lines stand for, top to
\* bottom: the date of the bullet's heading line, the trimmed line without
\* its two-character prefix.
RECURSIVE BulletItemsUpTo(_, _, _)
BulletItemsUpTo(L, B, n) ==
    IF n = 0 THEN <<>>
    ELSE BulletItemsUpTo(L, B, n - 1)
           \o (IF n \in B
               THEN LET t == Trimmed(L[n])
                    IN  <<[date |-> HeadingDate(L, HeadingOf(L, n)),
                           content |-> SubSeq(t, 3, Len(t))]>>
               ELSE <<>>)

BulletItems(s) ==
    LET L == SourceLinesOf(s)
    IN  BulletItemsUpTo(L, SectionBullets(L), Len(L))

\* A date string in one of the two formats strptime is given.
AcceptedFormat(d) == StrptimeDateTime(d) # {} \/ StrptimeDate(d) # {}

\* The items of the run are known from the feed's construction on.
Extracted == pc \in {"feed", "entries", "done", "failed"}

\* The item the k-th entry of the feed under construction was made from.
ItemOfEntry(k) == items[Len(fg.entries) - k + 1]

\* The entry the loop makes of an item whose date parses.
EntryOf(item) == MakeEntry(item, CHOOSE d \in ParseDate(item.date) : TRUE)

(***************************************************************************)
(* C1.  Entry order in the written feed equals the order of the bullet     *)
(* lines in the source: the k-th item of newsfeed.xml is the entry of the  *)
(* k-th extracted item.                                                    *)
(***************************************************************************)
C1_SourceOrder ==
    pc = "done" =>
        outfile.items = [k \in 1..Len(items) |-> EntryOf(items[k])]

\* What the script does instead: the written feed lists the entries in the
\* reverse of the extraction order.
FeedIsReverseOfItems ==
    pc = "done" =>
        outfile.items =
            [k \in 1..Len(items) |-> EntryOf(items[Len(items) - k + 1])]

(***************************************************************************)
(* C2.  For a document whose heading dates are all in an accepted format,  *)
(* the run does not fail and the written feed has as many entries as the   *)
(* document has bullet lines inside sections; bullet lines before the      *)
(* first heading count for nothing.                                        *)
(***************************************************************************)
AllHeadingDatesAccepted(s) ==
    LET L == SourceLinesOf(s)
    IN  \A j \in 1..Len(L) :
            IsHeadingLine(L[j]) => AcceptedFormat(HeadingDate(L, j))

C2_EntryCount ==
    /\ pc = "failed" => ~AllHeadingDatesAccepted(md)
    /\ pc = "done" =>
         (AllHeadingDatesAccepted(md) =>
            Len(outfile.items) = Cardinality(SectionBullets(SourceLinesOf(md))))

\* A finished run on a well-dated document that opens with a bullet line
\* above its first heading and has one bullet below it.
C2_Witness ==
    /\ pc = "done"
    /\ AllHeadingDatesAccepted(md)
    /\ IsBulletLine(SourceLinesOf(md)[1])
    /\ Cardinality(SectionBullets(SourceLinesOf(md))) = 1
    /\ Len(outfile.items) = 1

(***************************************************************************)
(* C3.  A run that meets an item whose date is in neither format fails     *)
(* and writes nothing: newsfeed.xml is written only after the date of      *)
(* every item has parsed, wherever in the document the bad date stands.    *)
(***************************************************************************)
DocItems == ExtractItems(Sections(md))

C3_NoOutputOnBadDate ==
    /\ (pc = "done" \/ outfile.exists) =>
         \A k \in 1..Len(DocItems) : AcceptedFormat(DocItems[k].date)
    /\ pc = "failed" => (~outfile.exists /\ ~AcceptedFormat(items[idx].date))
    /\ pc = "done" =>
         /\ outfile.exists
         /\ idx = Len(items) + 1
         /\ \A k \in 1..Len(items) : AcceptedFormat(items[k].date)

\* A run that failed on the date of its second item, the first entry
\* already built in memory, and no file written.
C3_Witness ==
    /\ pc = "failed"
    /\ idx = 2
    /\ Len(fg.entries) = 2
    /\ AcceptedFormat(items[1].date)
    /\ ~outfile.exists

(***************************************************************************)
(* C4 as claimed.  Whenever the document holds a section whose date is in  *)
(* neither accepted format, the run fails, also when that section has no   *)
(* bullet lines: a run never completes on such a document.                 *)
(***************************************************************************)
C4_FailsOnAnyBadSectionDate ==
    pc = "done" => AllHeadingDatesAccepted(md)

(***************************************************************************)
(* C4 amended.  The run fails exactly when some extracted item carries a   *)
(* date in neither accepted format, and it fails at the first such item,   *)
(* the items before it having parsed; a section that yields no item never  *)
(* makes the run fail, whatever its date.                                  *)
(***************************************************************************)
C4_FailsAtFirstBadItemDate ==
    /\ pc = "failed" =>
         /\ idx \in 1..Len(items)
         /\ ~AcceptedFormat(items[idx].date)
         /\ \A k \in 1..(idx - 1) : AcceptedFormat(items[k].date)
    /\ pc = "done" => \A k \in 1..Len(items) : AcceptedFormat(items[k].date)
    /\ (pc = "entries" /\ idx <= Len(items)) =>
         \A k \in 1..(idx - 1) : AcceptedFormat(items[k].date)

\* A run stopped at its second item, the first bad date of the document,
\* the item before it having parsed.
C4_Witness ==
    /\ pc = "failed"
    /\ idx = 2
    /\ Len(items) = 2
    /\ ~AllHeadingDatesAccepted(md)
    /\ ~AcceptedFormat(items[2].date)

(***************************************************************************)
(* C5 as claimed.  A second run on the unchanged input file writes the     *)
(* very output the first run wrote, whatever the time of the run.          *)
(***************************************************************************)
C5_ByteIdentical ==
    (run = 2 /\ pc = "done") => outfile = prevOut

(***************************************************************************)
(* C5 amended.  A second run on the unchanged input file writes the same   *)
(* entries in the same order and the same channel title, link and          *)
(* description as the first; the two outputs differ at most in the         *)
(* channel's lastBuildDate, the time at which the run built its feed, and  *)
(* are identical when that time is the same.                               *)
(***************************************************************************)
C5_SameUpToBuildDate ==
    (run = 2 /\ pc = "done") =>
        /\ prevOut.exists
        /\ outfile.items = prevOut.items
        /\ outfile.channel.title = prevOut.channel.title
        /\ outfile.channel.link = prevOut.channel.link
        /\ outfile.channel.description = prevOut.channel.description
        /\ outfile.channel.lastBuildDate = fg.lastBuildDate
        /\ outfile.channel.lastBuildDate = prevOut.channel.lastBuildDate
             => outfile = prevOut

\* A second run that ended later than the first and wrote a different file
\* with the same two entries.
C5_Witness ==
    /\ run = 2
    /\ pc = "done"
    /\ Len(outfile.items) = 2
    /\ outfile.items = prevOut.items
    /\ outfile # prevOut

(***************************************************************************)
(* C6.  A date-only string gives midnight of its day, a date-time string   *)
(* its hour and minute of its day, both in America/Chicago, and such       *)
(* strings with a day every month has never fail; in the documented        *)
(* example (a '2025-05-01' section with one bullet, then a                  *)
(* '2025-05-01 09:00' section with two) the first item is published at     *)
(* 00:00 and the other two at 09:00 on 2025-05-01.                         *)
(***************************************************************************)
IsDateOnlyText(d) ==
    /\ Len(d) = 10
    /\ \A i \in {1, 2, 3, 4, 6, 7, 9, 10} : d[i] \in Digits
    /\ d[5] = "-" /\ d[8] = "-"

IsDateTimeText(d) ==
    /\ Len(d) = 16
    /\ IsDateOnlyText(SubSeq(d, 1, 10))
    /\ d[11] = " " /\ d[14] = ":"
    /\ \A i \in {12, 13, 15, 16} : d[i] \in Digits

TwoDigits(d, i) == 10 * DigitVal(d[i]) + DigitVal(d[i + 1])

\* The timestamp a string of one of the two shapes denotes.
DenotedTime(d) ==
    [year |-> 100 * TwoDigits(d, 1) + TwoDigits(d, 3),
     month |-> TwoDigits(d, 6),
     day |-> TwoDigits(d, 9),
     hour |-> IF IsDateTimeText(d) THEN TwoDigits(d, 12) ELSE 0,
     minute |-> IF IsDateTimeText(d) THEN TwoDigits(d, 15) ELSE 0,
     tzinfo |-> "America/Chicago"]

\* A string of one of the two shapes that names a time every month has.
IsPlainTime(d) ==
    /\ IsDateOnlyText(d) \/ IsDateTimeText(d)
    /\ DenotedTime(d).year >= 1
    /\ DenotedTime(d).month \in 1..12
    /\ DenotedTime(d).day \in 1..28
    /\ DenotedTime(d).hour \in 0..23
    /\ DenotedTime(d).minute \in 0..59

\* The entries whose publication date has been set.
DatedEntries ==
    { k \in 1..Len(fg.entries) : ~(pc = "failed" /\ k = 1) }

C6_DateParsing ==
    /\ \A k \in DatedEntries :
         (IsDateOnlyText(ItemOfEntry(k).date) \/ IsDateTimeText(ItemOfEntry(k).date))
             => fg.entries[k].pubDate = DenotedTime(ItemOfEntry(k).date)
    /\ pc = "failed" => ~IsPlainTime(items[idx].date)
    /\ (md = ScenarioDoc /\ Extracted) =>
         /\ Len(items) = 3
         /\ pc # "failed"
         /\ pc = "done" =>
              /\ EntryOf(items[1]).pubDate =
                   [year |-> 2025, month |-> 5, day |-> 1, hour |-> 0,
                    minute |-> 0, tzinfo |-> "America/Chicago"]
              /\ \A k \in {2, 3} :
                   EntryOf(items[k]).pubDate =
                     [year |-> 2025, month |-> 5, day |-> 1, hour |-> 9,
                      minute |-> 0, tzinfo |-> "America/Chicago"]
              /\ { outfile.items[k].pubDate.hour : k \in 1..3 } = {0, 9}

\* The documented example, converted.
C6_Witness ==
    /\ md = ScenarioDoc
    /\ pc = "done"
    /\ Len(outfile.items) = 3

(***************************************************************************)
(* C7.  Every entry's title is a prefix of its item's content, of length   *)
(* min(len(content), 60): the content itself when that has 60 characters   *)
(* or fewer, its first 60 characters otherwise.                            *)
(***************************************************************************)
C7_TitleIsPrefix ==
    \A k \in 1..Len(fg.entries) :
        LET c == ItemOfEntry(k).content
            t == fg.entries[k].title
        IN  /\ Len(t) = (IF Len(c) <= 60 THEN Len(c) ELSE 60)
            /\ \A i \in 1..Len(t) : t[i] = c[i]
            /\ Len(c) <= 60 => t = c
            /\ pc = "done" => outfile.items[k].title = t

\* A written feed with an entry of a longer content, cut, and an entry of a
\* shorter one, whole.
C7_Witness ==
    /\ pc = "done"
    /\ \E k \in 1..Len(outfile.items) :
         Len(ItemOfEntry(k).content) = 61 /\ Len(outfile.items[k].title) = 60
    /\ \E k \in 1..Len(outfile.items) :
         Len(ItemOfEntry(k).content) < 60
           /\ outfile.items[k].title = ItemOfEntry(k).content

(***************************************************************************)
(* C8.  A section whose heading is directly followed by another heading    *)
(* or by the end of the text contributes no entry and does not make the    *)
(* run fail, whatever its date: the items are those of the document        *)
(* without that heading line, and when every section that has bullets has  *)
(* an accepted date the run does not fail and each bullet is an item with  *)
(* its own section's date.                                                 *)
(***************************************************************************)
EmptySections(L) ==
    { j \in 1..Len(L) :
        /\ IsHeadingLine(L[j])
        /\ \/ j = Len(L)
           \/ j = Len(L) - 1 /\ L[Len(L)] = <<>>
           \/ j < Len(L) /\ IsHeadingLine(L[j + 1]) }

WithoutLine(L, j) == SubSeq(L, 1, j - 1) \o SubSeq(L, j + 1, Len(L))

BulletSectionsAccepted(L) ==
    \A i \in SectionBullets(L) : AcceptedFormat(HeadingDate(L, HeadingOf(L, i)))

C8_EmptySection ==
    LET L == SourceLinesOf(md)
    IN  (Extracted /\ EmptySections(L) # {}) =>
          /\ \A j \in EmptySections(L) :
               items = ExtractItems(Sections(JoinLines(WithoutLine(L, j))))
          /\ pc = "failed" => items # <<>>
          /\ BulletSectionsAccepted(L) =>
               /\ pc # "failed"
               /\ items = BulletItems(md)

\* A written feed of three entries from a document with a badly dated
\* section without bullets between two sections with bullets.
C8_Witness ==
    /\ pc = "done"
    /\ \E j \in EmptySections(SourceLinesOf(md)) :
         /\ ~AcceptedFormat(HeadingDate(SourceLinesOf(md), j))
         /\ j > 1
         /\ j < Len(SourceLinesOf(md))
    /\ Len(outfile.items) = 3
    /\ { outfile.items[k].pubDate.hour : k \in 1..3 } = {0, 9}

(***************************************************************************)
(* C9.  The date attached to a section's items is the trimmed remainder of *)
(* the heading line itself, also when that is empty, and every later line  *)
(* of the section is examined as an item: the extracted items are the      *)
(* document's bullet lines, each with the date of its heading line.        *)
(***************************************************************************)
C9_DateIsHeadingRemainder ==
    Extracted => items = BulletItems(md)

(***************************************************************************)
(* C10.  A line of a section other than its heading line yields an item if *)
(* and only if, trimmed, it starts with '- ', and the item's content is    *)
(* the trimmed line without that prefix: the contents of the extracted     *)
(* items are those of the document's bullet lines, in order.               *)
(***************************************************************************)
C10_ItemIffBulletLine ==
    Extracted =>
        [k \in 1..Len(items) |-> items[k].content]
            = [k \in 1..Len(BulletItems(md)) |-> BulletItems(md)[k].content]

====
